---- MODULE Spec2Model ----
(***************************************************************************)
(* heimdall: hystrixHTTPClient (hystrix_client.go).                        *)
(*                                                                         *)
(* Several callers share one client and, through the command name          *)
(* "default", one circuit breaker.  Each caller runs do(): the retry loop  *)
(* of lines 113-157, every attempt going through hystrix.Do.  The breaker  *)
(* itself is not part of hystrix_client.go; it is modelled after section   *)
(* 4.2 of the specification.  The retrier (Retriable) is modelled after    *)
(* section 4.1.                                                            *)
(***************************************************************************)
EXTENDS Integers, Sequences, FiniteSets, TLC

\* ---------------------------------------------------------------- bounds
MaxRetry == 1
MaxTime == 3
MaxWindowRequests == 3

\* the callers sharing the client; Single is the caller of a run with one caller
Procs == {1, 2}
Single == {1}
Attempts == 0..MaxRetry
RetryCounts == (0 - 1)..MaxRetry

\* ------------------------------------------------------ program constants
defaultHystrixRetryCount == 0
StatusInternalServerError == 500
StatusOK == 200
StatusServiceUnavailable == 503
Statuses == {StatusOK, StatusServiceUnavailable}

\* closure phases: not started / finished, hhc.client.Do in progress; a
\* status code stands for "body read, hr.statusCode not yet assigned"
ClNone == 0
ClHTTP == 1

\* breaker tunings (hystrix.CommandConfig values)
CommandConfigs ==
  { [RequestVolumeThreshold |-> 3, ErrorPercentThreshold |-> 50,
     MaxConcurrentRequests |-> 1, SleepWindow |-> 1],
    [RequestVolumeThreshold |-> 2, ErrorPercentThreshold |-> 100,
     MaxConcurrentRequests |-> 2, SleepWindow |-> 2] }

RollingWindow == 2
ConstantBackoff == 1
Retriers == {"NoRetrier", "ConstantBackoff"}

\* the verbs, and those whose request carries the caller's body reader
Verbs == {"GET", "POST", "PUT", "PATCH", "DELETE"}
BodyVerbs == {"POST", "PUT", "PATCH"}
BodilessVerbs == Verbs \ BodyVerbs

EmptyResponse == [statusCode |-> 0, body |-> "", statusOf |-> 0 - 1, bodyOf |-> 0 - 1]
ZeroStats == [successes |-> 0, failures |-> 0]

VARIABLES
  retryCount,            \* hhc.retryCount
  retrier,               \* hhc.retrier
  hystrixCommandConfig,  \* hhc.hystrixCommandConfig
  settings,              \* the tuning the breaker named "default" runs with
  cbState, stats, inFlight, openedAt, probe,   \* the breaker
  now,                   \* clock
  pc, i, err, hr, cl,    \* do(): position, loop index, err, hr, closures
  sleepUntil, retErr,
  reqBody,               \* request.Body: "none", "full" or "drained"
  cancelled,             \* the caller's deadline has passed / it has cancelled
  attempts, calls, sleeps, \* history: hystrix.Do calls, closures run, sleeps
  sent                   \* history: the state of request.Body at each client.Do

vars == <<retryCount, retrier, hystrixCommandConfig, settings, cbState, stats,
          inFlight, openedAt, probe, now, pc, i, err, hr, cl, sleepUntil,
          retErr, reqBody, cancelled, attempts, calls, sleeps, sent>>

client == <<retryCount, retrier, hystrixCommandConfig, settings>>
breaker == <<cbState, stats, inFlight, openedAt, probe>>
history == <<attempts, calls, sleeps, sent>>

\* ------------------------------------------------------------- retrier
NextInterval(r, attempt) ==
  IF r = "NoRetrier" THEN 0 ELSE ConstantBackoff

\* ------------------------------------------------------------- breaker
Requests(s) == s.successes + s.failures

Tripped(s, cfg) ==
  /\ Requests(s) >= cfg.RequestVolumeThreshold
  /\ s.failures * 100 >= cfg.ErrorPercentThreshold * Requests(s)

SleepElapsed == now - openedAt >= settings.SleepWindow

\* the admission check without the HalfOpen gate
AdmissionWhileProbing ==
  IF cbState = "Open" /\ ~SleepElapsed THEN "CircuitOpenError"
  ELSE IF inFlight >= settings.MaxConcurrentRequests THEN "MaxConcurrencyError"
  ELSE "admit"

\* admission check of Execute: "admit" or the rejection error
Admission ==
  IF cbState = "Open" /\ ~SleepElapsed THEN "CircuitOpenError"
  ELSE IF cbState = "HalfOpen" THEN "CircuitOpenError"
  ELSE IF inFlight >= settings.MaxConcurrentRequests THEN "MaxConcurrencyError"
  ELSE "admit"

\* an admitted call: in-flight incremented; out of Open it is the probe
Admit(p) ==
  /\ inFlight' = inFlight + 1
  /\ IF cbState = "Open"
       THEN cbState' = "HalfOpen" /\ probe' = p
       ELSE UNCHANGED <<cbState, probe>>
  /\ UNCHANGED <<stats, openedAt>>

Count(s, ok) ==
  IF ok THEN [s EXCEPT !.successes = @ + 1] ELSE [s EXCEPT !.failures = @ + 1]

\* a failed probe reopening the breaker without restarting the sleep window
RecordNoRestart(p, ok) ==
  /\ inFlight' = inFlight - 1
  /\ IF probe = p
       THEN /\ probe' = 0
            /\ UNCHANGED openedAt
            /\ IF ok
                 THEN cbState' = "Closed" /\ stats' = ZeroStats
                 ELSE cbState' = "Open" /\ stats' = Count(stats, ok)
       ELSE /\ stats' = Count(stats, ok)
            /\ UNCHANGED probe
            /\ IF cbState = "Closed" /\ Tripped(Count(stats, ok), settings)
                 THEN cbState' = "Open" /\ openedAt' = now
                 ELSE UNCHANGED <<cbState, openedAt>>

\* outcome of an admitted call recorded; in-flight decremented
Record(p, ok) ==
  /\ inFlight' = inFlight - 1
  /\ IF probe = p
       THEN /\ probe' = 0
            /\ IF ok
                 THEN cbState' = "Closed" /\ stats' = ZeroStats
                      /\ UNCHANGED openedAt
                 ELSE cbState' = "Open" /\ stats' = Count(stats, ok)
                      /\ openedAt' = now
       ELSE /\ stats' = Count(stats, ok)
            /\ UNCHANGED probe
            /\ IF cbState = "Closed" /\ Tripped(Count(stats, ok), settings)
                 THEN cbState' = "Open" /\ openedAt' = now
                 ELSE UNCHANGED <<cbState, openedAt>>

\* ------------------------------------------------------------------ do
\* the backoff asked for the number of the attempt, counted from 1
BackoffOneBased(p, e) ==
  /\ err' = [err EXCEPT ![p] = e]
  /\ sleeps' = [sleeps EXCEPT ![p] =
        Append(@, [attempt |-> i[p] + 1,
                   interval |-> NextInterval(retrier, i[p] + 1)])]
  /\ sleepUntil' = [sleepUntil EXCEPT ![p] =
        now + NextInterval(retrier, i[p] + 1)]
  /\ pc' = [pc EXCEPT ![p] = "sleep"]

\* lines 147-150: err != nil
Backoff(p, e) ==
  /\ err' = [err EXCEPT ![p] = e]
  /\ sleeps' = [sleeps EXCEPT ![p] =
        Append(@, [attempt |-> i[p], interval |-> NextInterval(retrier, i[p])])]
  /\ sleepUntil' = [sleepUntil EXCEPT ![p] = now + NextInterval(retrier, i[p])]
  /\ pc' = [pc EXCEPT ![p] = "sleep"]

\* line 153: err == nil
Break(p) ==
  /\ err' = [err EXCEPT ![p] = "nil"]
  /\ pc' = [pc EXCEPT ![p] = "return"]
  /\ UNCHANGED <<sleeps, sleepUntil>>

\* do returning its last err instead of nil
ReturnedErrLast(e) == e

\* line 156: the error do returns, whatever the last err was
ReturnedErr(e) == "nil"

\* the loop condition with < for <=
LoopPcExclusive(n) == IF n < retryCount THEN "loop" ELSE "return"

\* loop condition of line 118 for index n
LoopPc(n) == IF n <= retryCount THEN "loop" ELSE "return"

Init ==
  /\ retryCount = defaultHystrixRetryCount
  /\ retrier = "NoRetrier"
  /\ hystrixCommandConfig \in CommandConfigs
  /\ settings \in CommandConfigs
  /\ cbState = "Closed"
  /\ stats = ZeroStats
  /\ inFlight = 0
  /\ openedAt = 0
  /\ probe = 0
  /\ now = 0
  /\ pc = [p \in Procs |-> "idle"]
  /\ i = [p \in Procs |-> 0]
  /\ err = [p \in Procs |-> "nil"]
  /\ hr = [p \in Procs |-> EmptyResponse]
  /\ cl = [p \in Procs |-> [a \in Attempts |-> ClNone]]
  /\ sleepUntil = [p \in Procs |-> 0]
  /\ retErr = [p \in Procs |-> "nil"]
  /\ attempts = [p \in Procs |-> 0]
  /\ calls = [p \in Procs |-> 0]
  /\ sleeps = [p \in Procs |-> <<>>]
  /\ reqBody = [p \in Procs |-> "none"]
  /\ cancelled = [p \in Procs |-> FALSE]
  /\ sent = [p \in Procs |-> <<>>]

\* the client is configured between calls: no call is under way, and the
\* results of the finished ones are dropped
Quiet == \A p \in Procs : pc[p] \in {"idle", "done"}

Forget ==
  /\ pc' = [p \in Procs |-> "idle"]
  /\ err' = [p \in Procs |-> "nil"]
  /\ hr' = [p \in Procs |-> EmptyResponse]
  /\ retErr' = [p \in Procs |-> "nil"]
  /\ attempts' = [p \in Procs |-> 0]
  /\ calls' = [p \in Procs |-> 0]
  /\ sleeps' = [p \in Procs |-> <<>>]
  /\ reqBody' = [p \in Procs |-> "none"]
  /\ cancelled' = [p \in Procs |-> FALSE]
  /\ sent' = [p \in Procs |-> <<>>]

SetRetryCount(count) ==
  /\ Quiet
  /\ retryCount' = count
  /\ Forget
  /\ UNCHANGED <<retrier, hystrixCommandConfig, settings, breaker, now, i, cl,
                 sleepUntil>>

SetRetrier(r) ==
  /\ Quiet
  /\ retrier' = r
  /\ Forget
  /\ UNCHANGED <<retryCount, hystrixCommandConfig, settings, breaker, now, i,
                 cl, sleepUntil>>

\* Get/... going on to do although http.NewRequest failed
CallIgnoringError(p, built, verb) ==
  /\ pc[p] \in {"idle", "done"}
  /\ hr' = [hr EXCEPT ![p] = EmptyResponse]
  /\ cl' = [cl EXCEPT ![p] = [a \in Attempts |-> ClNone]]
  /\ i' = [i EXCEPT ![p] = 0]
  /\ err' = [err EXCEPT ![p] = "nil"]
  /\ attempts' = [attempts EXCEPT ![p] = 0]
  /\ calls' = [calls EXCEPT ![p] = 0]
  /\ sleeps' = [sleeps EXCEPT ![p] = <<>>]
  /\ sent' = [sent EXCEPT ![p] = <<>>]
  /\ cancelled' = [cancelled EXCEPT ![p] = FALSE]
  /\ reqBody' = [reqBody EXCEPT ![p] =
                   IF built /\ verb \in BodyVerbs THEN "full" ELSE "none"]
  /\ pc' = [pc EXCEPT ![p] = LoopPc(0)]
  /\ retErr' = [retErr EXCEPT ![p] =
                  IF built THEN "nil" ELSE "request creation failed"]
  /\ UNCHANGED <<client, breaker, now, sleepUntil>>

\* Get/Post/Put/Patch/Delete: http.NewRequest, then do up to the loop head.
\* hr is a fresh Response: closures of an earlier call that still run write
\* the earlier call's hr and are no longer followed.
Call(p, built, verb) ==
  /\ pc[p] \in {"idle", "done"}
  /\ hr' = [hr EXCEPT ![p] = EmptyResponse]
  /\ cl' = [cl EXCEPT ![p] = [a \in Attempts |-> ClNone]]
  /\ i' = [i EXCEPT ![p] = 0]
  /\ err' = [err EXCEPT ![p] = "nil"]
  /\ attempts' = [attempts EXCEPT ![p] = 0]
  /\ calls' = [calls EXCEPT ![p] = 0]
  /\ sleeps' = [sleeps EXCEPT ![p] = <<>>]
  /\ sent' = [sent EXCEPT ![p] = <<>>]
  /\ cancelled' = [cancelled EXCEPT ![p] = FALSE]
  /\ reqBody' = [reqBody EXCEPT ![p] =
                   IF built /\ verb \in BodyVerbs THEN "full" ELSE "none"]
  /\ IF built
       THEN /\ pc' = [pc EXCEPT ![p] = LoopPc(0)]
            /\ retErr' = [retErr EXCEPT ![p] = "nil"]
       ELSE /\ pc' = [pc EXCEPT ![p] = "done"]
            /\ retErr' = [retErr EXCEPT ![p] = "request creation failed"]
  /\ UNCHANGED <<client, breaker, now, sleepUntil>>

\* one iteration of the loop up to the point where hystrix.Do blocks or fails
Attempt(p) ==
  /\ pc[p] = "loop"
  /\ Admission = "admit" => Requests(stats) + inFlight < MaxWindowRequests
  /\ attempts' = [attempts EXCEPT ![p] = @ + 1]
  /\ IF Admission = "admit"
       THEN /\ Admit(p)
            /\ cl' = [cl EXCEPT ![p][i[p]] = ClHTTP]
            /\ calls' = [calls EXCEPT ![p] = @ + 1]
            /\ sent' = [sent EXCEPT ![p] = Append(@, reqBody[p])]
            /\ pc' = [pc EXCEPT ![p] = "wait"]
            /\ UNCHANGED <<err, sleeps, sleepUntil>>
       ELSE /\ Backoff(p, Admission)
            /\ UNCHANGED <<breaker, cl, calls, sent>>
  /\ UNCHANGED <<client, now, i, hr, retErr, reqBody, cancelled>>

\* the closure returns to hystrix.Do: to the loop if Do still waits for it
Returns(p, a, e) ==
  IF pc[p] = "wait" /\ a = i[p]
    THEN /\ Record(p, e = "nil")
         /\ IF e = "nil" THEN Break(p) ELSE Backoff(p, e)
    ELSE UNCHANGED <<breaker, err, sleeps, sleepUntil, pc>>

\* request.Body once client.Do has read it
Drained(b) == IF b = "full" THEN "drained" ELSE b

\* line 122-124: hhc.client.Do fails, having read the request's body or not
TransportError(p, a, read) ==
  /\ cl[p][a] = ClHTTP
  /\ cl' = [cl EXCEPT ![p][a] = ClNone]
  /\ reqBody' = [reqBody EXCEPT ![p] = IF read THEN Drained(@) ELSE @]
  /\ Returns(p, a, "transport error")
  /\ UNCHANGED <<client, now, i, hr, retErr, cancelled, attempts, calls, sent>>

\* line 128-130: ioutil.ReadAll fails, hr.body holds what was read
ReadError(p, a) ==
  /\ cl[p][a] = ClHTTP
  /\ cl' = [cl EXCEPT ![p][a] = ClNone]
  /\ hr' = [hr EXCEPT ![p].body = "partial", ![p].bodyOf = a]
  /\ reqBody' = [reqBody EXCEPT ![p] = Drained(@)]
  /\ Returns(p, a, "read error")
  /\ UNCHANGED <<client, now, i, retErr, cancelled, attempts, calls, sent>>

\* line 122-128: a response with status s arrives and its body is read
ReadBody(p, a, s) ==
  /\ cl[p][a] = ClHTTP
  /\ cl' = [cl EXCEPT ![p][a] = s]
  /\ hr' = [hr EXCEPT ![p].body = "full", ![p].bodyOf = a]
  /\ reqBody' = [reqBody EXCEPT ![p] = Drained(@)]
  /\ UNCHANGED <<client, breaker, now, pc, i, err, sleepUntil, retErr,
                 cancelled, history>>

\* the closure without the status check of lines 138-140
SetStatusUnchecked(p, a) ==
  /\ cl[p][a] \in Statuses
  /\ cl' = [cl EXCEPT ![p][a] = ClNone]
  /\ hr' = [hr EXCEPT ![p].statusCode = cl[p][a], ![p].statusOf = a]
  /\ Returns(p, a, "nil")
  /\ UNCHANGED <<client, now, i, retErr, reqBody, cancelled, attempts, calls,
                 sent>>

\* line 136-142: hr.statusCode assigned, the closure returns
SetStatus(p, a) ==
  /\ cl[p][a] \in Statuses
  /\ cl' = [cl EXCEPT ![p][a] = ClNone]
  /\ hr' = [hr EXCEPT ![p].statusCode = cl[p][a], ![p].statusOf = a]
  /\ Returns(p, a, IF cl[p][a] >= StatusInternalServerError
                     THEN "Server is down" ELSE "nil")
  /\ UNCHANGED <<client, now, i, retErr, reqBody, cancelled, attempts, calls,
                 sent>>

\* the breaker's timeout fires: hystrix.Do returns the timeout error and the
\* failure is recorded, while the closure, which takes no cancellation,
\* runs on (cl is left as it is)
Timeout(p) ==
  /\ pc[p] = "wait"
  /\ Record(p, FALSE)
  /\ Backoff(p, "timeout")
  /\ UNCHANGED <<client, now, i, hr, cl, retErr, reqBody, cancelled, attempts,
                 calls, sent>>

\* the loop without its i++
WakeNoIncrement(p) ==
  /\ pc[p] = "sleep"
  /\ now >= sleepUntil[p]
  /\ pc' = [pc EXCEPT ![p] = LoopPc(i[p])]
  /\ sleepUntil' = [sleepUntil EXCEPT ![p] = 0]
  /\ UNCHANGED <<client, breaker, now, i, err, hr, cl, retErr, reqBody,
                 cancelled, history>>

\* time.Sleep returns, i++
Wake(p) ==
  /\ pc[p] = "sleep"
  /\ now >= sleepUntil[p]
  /\ i' = [i EXCEPT ![p] = @ + 1]
  /\ pc' = [pc EXCEPT ![p] = LoopPc(i[p] + 1)]
  /\ sleepUntil' = [sleepUntil EXCEPT ![p] = 0]
  /\ UNCHANGED <<client, breaker, now, err, hr, cl, retErr, reqBody, cancelled,
                 history>>

\* line 156: return hr, nil.  The caller gets a copy of hr, so closures
\* that still run no longer matter to it.
Return(p) ==
  /\ pc[p] = "return"
  /\ pc' = [pc EXCEPT ![p] = "done"]
  /\ retErr' = [retErr EXCEPT ![p] = ReturnedErr(err[p])]
  /\ cl' = [cl EXCEPT ![p] = [a \in Attempts |-> ClNone]]
  /\ i' = [i EXCEPT ![p] = 0]
  /\ UNCHANGED <<client, breaker, now, err, hr, sleepUntil, reqBody, cancelled,
                 history>>

\* the clock advances; the rolling window rolls every RollingWindow ticks
Tick ==
  /\ now < MaxTime
  /\ now' = now + 1
  /\ stats' = IF (now + 1) % RollingWindow = 0 THEN ZeroStats ELSE stats
  /\ UNCHANGED <<client, cbState, inFlight, openedAt, probe, pc, i, err, hr,
                 cl, sleepUntil, retErr, reqBody, cancelled, history>>

\* the caller's deadline passes, or it cancels, while do waits for an
\* attempt or sleeps; do takes no context and has nothing to observe it with
Cancel(p) ==
  /\ pc[p] \in {"wait", "sleep"}
  /\ ~cancelled[p]
  /\ cancelled' = [cancelled EXCEPT ![p] = TRUE]
  /\ UNCHANGED <<client, breaker, now, pc, i, err, hr, cl, sleepUntil, retErr,
                 reqBody, history>>

\* one step of caller p
Step(p) ==
  \/ Attempt(p)
  \/ \E a \in Attempts, read \in BOOLEAN : TransportError(p, a, read)
  \/ \E a \in Attempts : ReadError(p, a)
  \/ \E a \in Attempts, s \in Statuses : ReadBody(p, a, s)
  \/ \E a \in Attempts : SetStatus(p, a)
  \/ Timeout(p)
  \/ Wake(p)
  \/ Return(p)

\* one caller, configuring the client between its calls, for requests
\* without a body
Next ==
  \/ \E count \in RetryCounts : SetRetryCount(count)
  \/ \E r \in Retriers : SetRetrier(r)
  \/ \E p \in Single, built \in BOOLEAN, verb \in BodilessVerbs :
        Call(p, built, verb)
  \/ \E p \in Single : Step(p)
  \/ Tick

Spec == Init /\ [][Next]_vars

\* the same caller, with Post/Put/Patch as well
NextBody ==
  \/ Next
  \/ \E p \in Single, built \in BOOLEAN, verb \in BodyVerbs :
        Call(p, built, verb)

SpecBody == Init /\ [][NextBody]_vars

\* the same caller, with a deadline or a cancellation of its own
NextCancel ==
  \/ Next
  \/ \E p \in Single : Cancel(p)

SpecCancel == Init /\ [][NextCancel]_vars

\* one caller whose goroutines keep running and whose clock keeps going:
\* every HTTP call completes or times out, every sleep ends
SpecLive ==
  Init /\ [][Next]_vars /\ WF_vars(Tick) /\ \A p \in Single : WF_vars(Step(p))

\* several callers sharing the client as constructed, for requests
\* without a body
NextShared ==
  \/ \E p \in Procs, built \in BOOLEAN, verb \in BodilessVerbs :
        Call(p, built, verb)
  \/ \E p \in Procs : Step(p)
  \/ Tick

SpecShared == Init /\ [][NextShared]_vars

\* ------------------------------------------------------------ properties
\* do has returned for caller p, the request having been constructed
Returned(p) == pc[p] = "done" /\ retErr[p] # "request creation failed"

\* every attempt of p's finished call failed
Exhausted(p) == Returned(p) /\ err[p] # "nil"

\* C1: with retry count N >= 0 and every attempt failing, do makes exactly
\* N+1 attempts before it returns; with the default retry count, exactly one.
C1AttemptsMade ==
  \A p \in Procs :
    /\ Exhausted(p) /\ retryCount >= 0 => attempts[p] = retryCount + 1
    /\ Returned(p) /\ retryCount = defaultHystrixRetryCount => attempts[p] = 1

C1Witness ==
  \E p \in Procs :
    /\ Exhausted(p) /\ retryCount = MaxRetry
    /\ attempts[p] = MaxRetry + 1 /\ calls[p] = MaxRetry + 1

\* C2: once the request is constructed do returns a nil error, also when
\* every attempt failed.
C2NilError == \A p \in Procs : Returned(p) => retErr[p] = "nil"

C2Witness ==
  \E p \in Procs :
    /\ Exhausted(p) /\ err[p] = "timeout" /\ retErr[p] = "nil"
    /\ attempts[p] = MaxRetry + 1

\* C3: a breaker rejection (circuit open, max concurrency) of the last
\* attempt is returned to the caller as the error of the call.
Rejections == {"CircuitOpenError", "MaxConcurrencyError"}

C3RejectionReturned ==
  \A p \in Procs : Returned(p) /\ err[p] \in Rejections => retErr[p] = err[p]

\* C4: with retry count N and every attempt failing there are exactly N
\* backoff sleeps, none after the last attempt.
C4SleepsBetweenAttempts ==
  \A p \in Procs :
    Exhausted(p) /\ retryCount >= 0 => Len(sleeps[p]) = retryCount

\* C5: a call that ends with a successful attempt returns that attempt's
\* status and body with a nil error, with no attempt and no sleep after it.
C5SuccessReturned ==
  \A p \in Procs :
    Returned(p) /\ err[p] = "nil" /\ attempts[p] >= 1 =>
      /\ retErr[p] = "nil"
      /\ hr[p].statusOf = attempts[p] - 1 /\ hr[p].bodyOf = attempts[p] - 1
      /\ hr[p].statusCode < StatusInternalServerError
      /\ Len(sleeps[p]) = attempts[p] - 1

\* C6: a Closed breaker opens exactly when the window's request count
\* reaches the requestVolumeThreshold and its failure rate the
\* errorThresholdPercentage of the configuration given at construction.
C6OpensAtConfiguredThreshold ==
  [][cbState = "Closed" =>
       (cbState' = "Open" <=> Tripped(stats', hystrixCommandConfig))]_vars

\* p calls hystrix.Do in this step; its closure is run in this step
Started(p) == attempts'[p] = attempts[p] + 1
Ran(p) == calls'[p] = calls[p] + 1
RejectedOpen(p) == ~Ran(p) /\ cl' = cl /\ err'[p] = "CircuitOpenError"

\* C7: while Open within the sleep window every attempt is rejected without
\* running the HTTP call; after it one call is admitted as the HalfOpen
\* probe, and every call made while the probe is in flight is rejected.
C7OpenRejects ==
  /\ [](cbState = "HalfOpen" => probe \in Procs /\ pc[probe] = "wait")
  /\ [][\A p \in Procs : Started(p) =>
         /\ cbState = "Open" /\ ~SleepElapsed => RejectedOpen(p)
         /\ cbState = "Open" /\ Ran(p) => cbState' = "HalfOpen" /\ probe' = p
         /\ cbState = "Open" /\ SleepElapsed
              /\ inFlight < settings.MaxConcurrentRequests => Ran(p)
         /\ cbState = "HalfOpen" => RejectedOpen(p)]_vars

C7Witness ==
  \E p, q \in Procs :
    /\ cbState = "HalfOpen" /\ probe = p /\ cl[p][i[p]] # ClNone
    /\ q # p /\ pc[q] = "sleep" /\ err[q] = "CircuitOpenError" /\ calls[q] = 0

\* C8: a successful probe closes the breaker and resets its stats; a failed
\* probe reopens it and restarts the sleep window, so that calls are
\* rejected again.
C8ProbeOutcome ==
  [][\A p \in Procs : probe = p /\ probe' # p =>
       /\ cbState = "HalfOpen"
       /\ IF err'[p] = "nil"
            THEN cbState' = "Closed" /\ stats' = ZeroStats
            ELSE /\ cbState' = "Open" /\ openedAt' = now
                 /\ Admission' = "CircuitOpenError"]_vars

C8Witness ==
  \E p \in Procs :
    /\ cbState = "Closed" /\ openedAt >= 1 /\ stats = ZeroStats
    /\ pc[p] = "return" /\ err[p] = "nil"

\* C9: the number of HTTP calls under way never exceeds
\* maxConcurrentRequests.
Running == {pa \in Procs \X Attempts : cl[pa[1]][pa[2]] # ClNone}

C9InFlightBounded == Cardinality(Running) <= settings.MaxConcurrentRequests

\* C10: within one call, no attempt starts while the closure of an earlier
\* attempt is still running.
C10Sequential ==
  \A p \in Procs : \A a \in Attempts :
    cl[p][a] # ClNone => a >= attempts[p] - 1

\* the closure of attempt a of p's call still runs although hystrix.Do has
\* returned for that attempt
Late(p, a) == cl[p][a] # ClNone /\ ~(pc[p] = "wait" /\ a = i[p])

\* C11: the late completion of a timed-out attempt never changes the status
\* code or body of the Response do returns: a closure that outlived its
\* attempt leaves hr alone, and a call whose last attempt timed out does not
\* return that attempt's status.
C11LateResultIgnored ==
  /\ [](\A p \in Procs :
         Returned(p) /\ err[p] = "timeout" => hr[p].statusOf # attempts[p] - 1)
  /\ [][\A p \in Procs : \A a \in Attempts :
         Late(p, a) /\ cl'[p][a] # cl[p][a] => hr'[p] = hr[p]]_vars

\* C12: a request-construction error is returned at once with an empty
\* Response: no attempt, no sleep, the breaker untouched.
CreationFailed(p) == retErr[p] = "request creation failed"

C12CreationErrorImmediate ==
  /\ [](\A p \in Procs : CreationFailed(p) =>
         /\ pc[p] = "done" /\ hr[p] = EmptyResponse
         /\ attempts[p] = 0 /\ calls[p] = 0 /\ sleeps[p] = <<>>)
  /\ [][\A p \in Procs : ~CreationFailed(p) /\ CreationFailed(p)' =>
         UNCHANGED breaker]_vars

C12Witness ==
  \E p \in Procs :
    /\ CreationFailed(p) /\ pc[p] = "done" /\ hr[p] = EmptyResponse
    /\ cbState = "Open" /\ stats.failures >= 2

\* the closure of p's current attempt ends in this step, hystrix.Do still
\* waiting for it: with a status assigned, or with a transport error
StatusStep(p) ==
  pc[p] = "wait" /\ cl[p][i[p]] \in Statuses /\ cl'[p][i[p]] = ClNone
ErrorStep(p) ==
  pc[p] = "wait" /\ cl[p][i[p]] = ClHTTP /\ cl'[p][i[p]] = ClNone
    /\ hr'[p] = hr[p]
FailureStep(p) ==
  /\ err'[p] # "nil" /\ pc'[p] = "sleep"
  /\ stats'.failures = stats.failures + 1
  /\ Len(sleeps'[p]) = Len(sleeps[p]) + 1
SuccessStep(p) ==
  /\ err'[p] = "nil" /\ pc'[p] = "return" /\ sleeps'[p] = sleeps[p]
  /\ \/ stats'.successes = stats.successes + 1
     \/ probe = p /\ stats' = ZeroStats

\* C13: a status >= 500 is handled like a transport error, a failure in the
\* breaker's stats followed by the backoff and, if attempts remain, another
\* attempt; a status < 500 is a success and ends the loop.
C13ServerErrorIsFailure ==
  /\ [][\A p \in Procs :
         /\ ErrorStep(p) => FailureStep(p)
         /\ StatusStep(p) =>
              IF cl[p][i[p]] >= StatusInternalServerError
                THEN FailureStep(p) ELSE SuccessStep(p)]_vars
  /\ [][\A p \in Procs : pc[p] = "sleep" /\ pc'[p] # "sleep" =>
         pc'[p] = IF i[p] < retryCount THEN "loop" ELSE "return"]_vars

C13Witness ==
  \E p \in Procs :
    /\ pc[p] = "wait" /\ i[p] = 1 /\ err[p] = "Server is down"
    /\ hr[p].statusCode = StatusServiceUnavailable /\ stats.failures >= 1

\* C14: once the caller has cancelled (or its deadline has passed) during
\* an attempt or a backoff sleep, do starts no further attempt and returns
\* a cancellation failure.
C14CancellationSurfaces ==
  /\ [](\A p \in Procs : pc[p] = "done" /\ cancelled[p] => retErr[p] # "nil")
  /\ [][\A p \in Procs : cancelled[p] => ~Started(p)]_vars

\* C15: when every attempt fails, the status code and body do returns are
\* those the final attempt observed, not those of an earlier attempt.
FromLastOrNone(p, n) == n = attempts[p] - 1 \/ n = 0 - 1

C15LastAttemptReturned ==
  \A p \in Procs :
    Exhausted(p) =>
      FromLastOrNone(p, hr[p].statusOf) /\ FromLastOrNone(p, hr[p].bodyOf)

\* do has finished k attempts of p's call with a failure
FailedAttempts(p) ==
  IF pc[p] = "wait" \/ (pc[p] \in {"return", "done"} /\ err[p] = "nil")
    THEN attempts[p] - 1 ELSE attempts[p]

\* C16: NextInterval is called once per failed attempt, with 0, 1, 2, ... in
\* this order, and each sleep is for the interval it returned, which is zero
\* with the retrier the constructor sets.
C16BackoffArguments ==
  \A p \in Procs :
    /\ pc[p] # "idle" /\ ~CreationFailed(p) =>
         Len(sleeps[p]) = IF attempts[p] = 0 THEN 0 ELSE FailedAttempts(p)
    /\ \A k \in 1..Len(sleeps[p]) :
         /\ sleeps[p][k].attempt = k - 1
         /\ sleeps[p][k].interval = NextInterval(retrier, k - 1)
         /\ retrier = "NoRetrier" => sleeps[p][k].interval = 0
    /\ pc[p] = "sleep" =>
         sleepUntil[p] <= now + sleeps[p][Len(sleeps[p])].interval
    /\ pc[p] = "sleep" /\ sleeps[p][Len(sleeps[p])].interval = 0 =>
         ENABLED Wake(p)

C16Witness ==
  \E p \in Procs :
    /\ pc[p] = "sleep" /\ retrier = "ConstantBackoff" /\ Len(sleeps[p]) = 2
    /\ sleepUntil[p] = now + ConstantBackoff

\* C17: the status code and the body of the Response do returns come from
\* the same HTTP round trip.
C17SameRoundTrip ==
  \A p \in Procs :
    Returned(p) /\ hr[p].statusOf >= 0 /\ hr[p].bodyOf >= 0 =>
      hr[p].statusOf = hr[p].bodyOf

\* C18: every attempt of a Post/Put/Patch sends the complete body the
\* caller supplied, never one an earlier attempt has read.
C18CompleteBodySent ==
  \A p \in Procs : \A k \in 1..Len(sent[p]) : sent[p][k] = sent[p][1]

\* C19: every call of do makes at least one attempt through the breaker,
\* whatever the retry count set.
C19AtLeastOneAttempt == \A p \in Procs : Returned(p) => attempts[p] >= 1

\* do is running for caller p
Active(p) == pc[p] \in {"loop", "wait", "sleep", "return"}

\* the clock of the model has stopped with p's sleep not over, or with the
\* window's request counter at its bound
OutOfTime(p) ==
  /\ now = MaxTime
  /\ \/ pc[p] = "sleep" /\ sleepUntil[p] > now
     \/ /\ pc[p] = "loop" /\ Admission = "admit"
        /\ Requests(stats) + inFlight >= MaxWindowRequests

\* C20: every call of do returns: each attempt has the next index, there
\* are at most retryCount+1 of them, and the call ends, also while the
\* breaker rejects every attempt.
C20Terminates ==
  /\ [](\A p \in Procs :
         attempts[p] <= IF retryCount >= 0 THEN retryCount + 1 ELSE 0)
  /\ [][\A p \in Procs : Started(p) => i[p] = attempts[p]]_vars
  /\ \A p \in Single : Active(p) ~> (pc[p] = "done" \/ OutOfTime(p))

C20Witness ==
  \E p \in Procs :
    /\ Exhausted(p) /\ attempts[p] = MaxRetry + 1 /\ calls[p] = 0
    /\ cbState = "Open" /\ err[p] = "CircuitOpenError"

====
